---------------------------- MODULE Spec2Model ----------------------------
(***************************************************************************)
(* A model of src/agent/runner.py: AgentRunner, its constructor, and the   *)
(* bounded self-reflection loop of answer().                                *)
(*                                                                         *)
(* Every call of answer() is a coroutine with its own frame (its locals).  *)
(* A coroutine runs atomically from one await to the next, so there is one *)
(* action per resumption: the awaited collaborator call returns or raises, *)
(* and the code runs on to the next await or to its return.                *)
(* Texts that the code only passes around are atomic strings; the judge's   *)
(* reason, which the code lower-cases and searches, is a sequence of        *)
(* characters. Scores and thresholds are in tenths (0.8 is 8).              *)
(***************************************************************************)
EXTENDS Integers, Sequences, FiniteSets, TLC

\* ------------------------------------------------------------------ bounds
\* The largest max_reflections a caller passes (the smallest is -1).
MaxReflections == 2

\* The longest conversation history given to _format_history on its own.
MaxTurns == 3

\* --------------------------------------------------------------- constants
\* answer()'s defaults: reflection_threshold = 0.8 (in tenths), limit = 5.
DefaultThreshold == 8
DefaultLimit == 5

\* Python's None, where a text is expected.
None == "<None>"

\* ------------------------------------------------------------------- texts
UpperLetters ==
  <<"A","B","C","D","E","F","G","H","I","J","K","L","M",
    "N","O","P","Q","R","S","T","U","V","W","X","Y","Z">>
LowerLetters ==
  <<"a","b","c","d","e","f","g","h","i","j","k","l","m",
    "n","o","p","q","r","s","t","u","v","w","x","y","z">>

\* The lower-case and upper-case form of each letter; any other character
\* is its own.
ToLower ==
  [ch \in {UpperLetters[i] : i \in 1..26} |->
     LowerLetters[CHOOSE i \in 1..26 : UpperLetters[i] = ch]]
ToUpper ==
  [ch \in {LowerLetters[i] : i \in 1..26} |->
     UpperLetters[CHOOSE i \in 1..26 : LowerLetters[i] = ch]]

LowerChar(ch) == IF ch \in DOMAIN ToLower THEN ToLower[ch] ELSE ch

UpperChar(ch) == IF ch \in DOMAIN ToUpper THEN ToUpper[ch] ELSE ch

\* str.lower() and str.upper()
Lower(s) == [i \in 1..Len(s) |-> LowerChar(s[i])]
Upper(s) == [i \in 1..Len(s) |-> UpperChar(s[i])]
\* str.swapcase()
SwapCase(s) ==
  [i \in 1..Len(s) |-> IF LowerChar(s[i]) = s[i] THEN UpperChar(s[i]) ELSE LowerChar(s[i])]

\* Python's `sub in s`
Contains(s, sub) ==
  \E i \in 1..(Len(s) - Len(sub) + 1) : SubSeq(s, i, i + Len(sub) - 1) = sub

\* The literal "ambiguous" of the acceptance test.
AmbiguousWord == <<"a","m","b","i","g","u","o","u","s">>

\* ------------------------------------------------- collaborators' responses
\* What agent.run(...).output can be. The Conc sets are the responses when
\* two calls of answer() interleave; they are smaller to keep the product of
\* the two calls' histories finite and small.
Outputs == {"", "A1"}
ConcOutputs == {"A1", "A2"}

\* What compute_metrics can report: metrics["llm_judge_score"] ...
Scores == {DefaultThreshold - 1, DefaultThreshold}
\* ... and metrics["llm_judge_reason"].
ReasonComplete == <<"c","o","m","p","l","e","t","e">>
ReasonAmbiguous == <<"a","m","b","i","g","u","o","u","s"," ","c","o","n","t","e","x","t">>
ReasonAmbiguousCap == <<"A","m","b","i","g","u","o","u","s"," ","c","o","n","t","e","x","t">>
Reasons == {ReasonComplete, ReasonAmbiguous, ReasonAmbiguousCap}
ConcReasons == {ReasonComplete}

\* The exceptions a collaborator can raise.
AgentErrors == {"AgentRunError"}
MetricsErrors == {"MetricsError"}

\* ------------------------------------------------------ callers' arguments
Questions == {"Q1"}
Limits == {DefaultLimit}
\* conversation_history: None, or a sequence of (question, answer) pairs.
NoHistory == [given |-> FALSE, turns |-> <<>>]
Histories ==
  {NoHistory, [given |-> TRUE, turns |-> << <<"q0", "a0">> >>]}
Thresholds == {DefaultThreshold - 1, DefaultThreshold, DefaultThreshold + 1}
ConcThresholds == {DefaultThreshold}
MaxReflectionsArgs == -1..MaxReflections

\* The coroutines of answer() a run may start.
CallIds == {1, 2}

VARIABLES
  status,        \* of the construction: "absent", "ready", "config_error"
  self_agent,    \* self.agent
  self_deps,     \* self.deps
  ctor_args,     \* what AgentRunner(...) was called with
  factory_calls, \* the number of calls of build_agent()
  callers,       \* the coroutines this run may start
  overlap,       \* whether a caller starts a call while another is in progress
  calls,         \* the frame of each coroutine of answer()
  fmt            \* a call of _format_history on its own: argument and result

vars ==
  <<status, self_agent, self_deps, ctor_args, factory_calls, callers, overlap,
    calls, fmt>>

\* --------------------------------------------------------------- __init__
\* build_agent(): a matched (agent, deps) pair.
build_agent == [agent |-> "built_agent", deps |-> "built_deps"]

AgentArgs == {None, "agent0"}
DepsArgs == {None, "deps0"}

\* Construct without the check of lines 15-16.
Construct_NoCheck(agent, deps) ==
  LET built == agent = None /\ deps = None
      a == IF built THEN build_agent.agent ELSE agent
      d == IF built THEN build_agent.deps ELSE deps
  IN [status |-> "ready", agent |-> a, deps |-> d,
      factory |-> IF built THEN 1 ELSE 0]

\* The outcome of AgentRunner(agent, deps): lines 13-18.
Construct(agent, deps) ==
  LET built == agent = None /\ deps = None
      a == IF built THEN build_agent.agent ELSE agent
      d == IF built THEN build_agent.deps ELSE deps
  IN IF a = None \/ d = None
       THEN [status |-> "config_error", agent |-> None, deps |-> None,
             factory |-> IF built THEN 1 ELSE 0]
       ELSE [status |-> "ready", agent |-> a, deps |-> d,
             factory |-> IF built THEN 1 ELSE 0]

New(agent, deps) ==
  /\ status = "absent"
  /\ LET r == Construct(agent, deps)
     IN /\ status' = r.status
        /\ self_agent' = r.agent
        /\ self_deps' = r.deps
        /\ factory_calls' = factory_calls + r.factory
  /\ ctor_args' = [agent |-> agent, deps |-> deps]
  /\ UNCHANGED <<callers, overlap, calls, fmt>>


\* ---------------------------------------------------------- _build_prompt
\* A text the code assembles is a sequence of lines, a line a sequence of
\* pieces (the literal parts of an f-string and the values put in them).
\* The backquotes of the literals are written as quotes.
DecimalText == <<"1", "2", "3", "4", "5", "6", "7", "8", "9">>

\* _format_history(history): lines 97-104.
RECURSIVE HistoryLines(_)
HistoryLines(turns) ==
  IF turns = <<>> THEN <<>>
  ELSE << <<"User: ", Head(turns)[1]>>, <<"Assistant: ", Head(turns)[2]>> >>
         \o HistoryLines(Tail(turns))

\* format_history testing `history is None` for `not history`.
format_history_OnlyNone(history) ==
  IF ~history.given
    THEN << <<"(no prior turns)">> >>
    ELSE HistoryLines(history.turns)

format_history(history) ==
  IF ~history.given \/ history.turns = <<>>
    THEN << <<"(no prior turns)">> >>
    ELSE HistoryLines(history.turns)

\* AgentRunner._build_prompt(question, history, limit): lines 86-94.
build_prompt(question, history, limit) ==
  << <<"Conversation so far:">> >>
  \o format_history(history)
  \o << <<>>,
        <<"User question: ", question>>,
        <<"First call 'vector_search' with query=the question text and limit=",
          DecimalText[limit],
          " to fetch context. If vector search returns nothing useful, call 'web_search' to gather public web snippets. Then answer concisely using only the retrieved context. If nothing relevant is returned, say 'I do not know based on the provided context.'">> >>

\* The reflection prompt of lines 66-71.
reflection_prompt(answer_text) ==
  << <<"Review the previous answer carefully: ", answer_text>>,
     <<"Check for factual accuracy, completeness, clarity, and consistency using only retrieved context.">>,
     <<"If there are mistakes or missing details, provide a corrected, concise answer.">>,
     <<"If nothing relevant is available, say exactly: 'I do not know based on the provided context.'">> >>

\* ------------------------------------------------- the frame of one call
\* The locals of _run_agent_with_reflection, where the coroutine is
\* suspended (pc), and what its caller gets (result or exc). agent_calls,
\* metrics_calls, sent, judged and trace record the collaborator calls this
\* coroutine has made and the responses it has got; stdout, what it printed.
IdleFrame ==
  [pc |-> "idle", question |-> None, limit |-> 0,
   conversation_history |-> NoHistory, prompt |-> <<>>,
   reflection_threshold |-> 0, max_reflections |-> 0,
   attempt |-> 0, answer_text |-> None, result |-> None, exc |-> None,
   agent_calls |-> 0, metrics_calls |-> 0, sent |-> <<>>, judged |-> <<>>,
   stdout |-> <<>>, trace |-> <<>>]

\* The lines of lines 52, 61 and 64. A line is its text and, for the
\* f-string of line 52, the metrics put in it.
NoMetrics == [llm_judge_score |-> 0, llm_judge_reason |-> <<>>]
MetricsLine(metrics) == [text |-> "[metrics] ", value |-> metrics]
MaxReachedLine ==
  [text |-> "[reflection] Max reflection attempts reached. Returning best-effort answer.",
   value |-> NoMetrics]
SelfCorrectionLine ==
  [text |-> "[reflection] Low confidence or ambiguity detected. Attempting self-correction...",
   value |-> NoMetrics]

\* print(line)
Stdout(f, line) == [f EXCEPT !.stdout = Append(@, line)]

\* `answer_text or ""` of line 51.
OrEmpty(text) == IF text = None \/ text = "" THEN "" ELSE text

\* low_confidence with <= for <.
low_confidence_Inclusive(metrics, reflection_threshold) ==
  metrics.llm_judge_score <= reflection_threshold

\* Lines 54 and 55.
low_confidence(metrics, reflection_threshold) ==
  metrics.llm_judge_score < reflection_threshold

\* ambiguous without the .lower() of line 55.
ambiguous_CaseSensitive(metrics) ==
  Contains(metrics.llm_judge_reason, AmbiguousWord)

ambiguous(metrics) ==
  Contains(Lower(metrics.llm_judge_reason), AmbiguousWord)

\* Line 57: the answer is good.
Accepted(metrics, reflection_threshold) ==
  ~low_confidence(metrics, reflection_threshold) /\ ~ambiguous(metrics)

\* Line 77.
Return(f) == [f EXCEPT !.pc = "returned", !.result = f.answer_text]

\* Raise with the failure caught and the current answer returned.
Raise_BestEffort(f, e) == [f EXCEPT !.pc = "returned", !.result = f.answer_text]

\* An exception of an awaited call leaves the coroutine: nothing catches it.
Raise(f, e) == [f EXCEPT !.pc = "raised", !.exc = e]

\* LoopHead with `attempt < max_reflections` for the test of line 50.
LoopHead_Strict(f) ==
  IF f.attempt < f.max_reflections
    THEN [f EXCEPT !.pc = "compute_metrics",
                   !.metrics_calls = @ + 1,
                   !.judged = <<f.question, OrEmpty(f.answer_text)>>]
    ELSE Return(f)

\* LoopHead raising on an empty answer.
LoopHead_RejectsEmpty(f) ==
  IF f.answer_text = "" THEN Raise(f, "EmptyAnswer")
  ELSE IF f.attempt <= f.max_reflections
    THEN [f EXCEPT !.pc = "compute_metrics",
                   !.metrics_calls = @ + 1,
                   !.judged = <<f.question, OrEmpty(f.answer_text)>>]
    ELSE Return(f)

\* Lines 50-51: the loop test, and the call of compute_metrics.
LoopHead(f) ==
  IF f.attempt <= f.max_reflections
    THEN [f EXCEPT !.pc = "compute_metrics",
                   !.metrics_calls = @ + 1,
                   !.judged = <<f.question, OrEmpty(f.answer_text)>>]
    ELSE Return(f)

\* Lines 32-33 and 46-47: answer() up to its first await.
Start(question, limit, history, reflection_threshold, max_reflections) ==
  LET prompt == build_prompt(question, history, limit)
  IN [IdleFrame EXCEPT !.pc = "agent_run",
                       !.question = question,
                       !.limit = limit,
                       !.conversation_history = history,
                       !.prompt = prompt,
                       !.reflection_threshold = reflection_threshold,
                       !.max_reflections = max_reflections,
                       !.attempt = 0,
                       !.agent_calls = 1,
                       !.sent = prompt]

\* Lines 47-48, then the loop.
AfterRun(f, output) == LoopHead([f EXCEPT !.answer_text = output])

\* Reflect evaluating the old answer once more: no call of the agent.
Reflect_NoRerun(f) ==
  LoopHead([Stdout(f, SelfCorrectionLine) EXCEPT !.attempt = @ + 1])

\* Reflect with the question restated in the reflection prompt.
Reflect_RestatesQuestion(f) ==
  [Stdout(f, SelfCorrectionLine) EXCEPT
     !.pc = "agent_rerun",
     !.agent_calls = @ + 1,
     !.sent = reflection_prompt(f.answer_text)
              \o << <<"User question: ", f.question>> >>]

\* Lines 64-73: the notice, the reflection prompt and the call of the agent.
Reflect(f) ==
  [Stdout(f, SelfCorrectionLine) EXCEPT
     !.pc = "agent_rerun",
     !.agent_calls = @ + 1,
     !.sent = reflection_prompt(f.answer_text)]

\* GiveUp without the notice of line 61.
GiveUp_Silent(f) == Return(f)

\* Lines 60-62 when the attempts are used up, then line 77.
GiveUp(f) == Return(Stdout(f, MaxReachedLine))

\* AfterMetrics without the stop of lines 60-62.
AfterMetrics_NoStop(f, metrics) ==
  LET g == Stdout(f, MetricsLine(metrics)) IN
  IF Accepted(metrics, f.reflection_threshold) THEN Return(g)
  ELSE Reflect(g)

\* AfterMetrics stopping one attempt early.
AfterMetrics_StopEarly(f, metrics) ==
  LET g == Stdout(f, MetricsLine(metrics)) IN
  IF Accepted(metrics, f.reflection_threshold) THEN Return(g)
  ELSE IF f.attempt + 1 >= f.max_reflections THEN GiveUp(g)
  ELSE Reflect(g)

\* AfterMetrics retrying whatever the metrics say, while attempts are left.
AfterMetrics_IgnoreVerdict(f, metrics) ==
  LET g == Stdout(f, MetricsLine(metrics)) IN
  IF f.attempt = f.max_reflections THEN GiveUp(g)
  ELSE Reflect(g)

\* Lines 52-73: from the metrics to the next await or the return.
AfterMetrics(f, metrics) ==
  LET g == Stdout(f, MetricsLine(metrics)) IN
  IF Accepted(metrics, f.reflection_threshold) THEN Return(g)
  ELSE IF f.attempt = f.max_reflections THEN GiveUp(g)
  ELSE Reflect(g)

\* AfterRerun without the increment of line 75.
AfterRerun_NoIncrement(f, output) ==
  LoopHead([f EXCEPT !.answer_text = output])

\* AfterRerun counting the retry twice.
AfterRerun_CountsTwice(f, output) ==
  LoopHead([f EXCEPT !.answer_text = output, !.attempt = @ + 2])

\* AfterRerun without the assignment of line 74.
AfterRerun_KeepAnswer(f, output) ==
  LoopHead([f EXCEPT !.attempt = @ + 1])

\* Lines 73-75, then the loop.
AfterRerun(f, output) ==
  LoopHead([f EXCEPT !.answer_text = output, !.attempt = @ + 1])

\* The coroutine resumed with the response of the call it awaits.
Resume(f, response) ==
  IF response.kind = "raise" THEN Raise(f, response.exc)
  ELSE IF f.pc = "agent_run" THEN AfterRun(f, response.output)
  ELSE IF f.pc = "agent_rerun" THEN AfterRerun(f, response.output)
  ELSE AfterMetrics(f, response.metrics)

Logged(f, response) == [f EXCEPT !.trace = Append(@, response)]

\* Deliver with attempt and answer_text kept on the runner (self.attempt,
\* self.answer_text) and so shared by every coroutine in progress.
Deliver_SharedLocals(c, response) ==
  LET g == Logged(Resume(calls[c], response), response) IN
  [d \in CallIds |->
     IF d = c THEN g
     ELSE IF calls[d].pc \in {"idle", "returned", "raised"} THEN calls[d]
     ELSE [calls[d] EXCEPT !.attempt = g.attempt, !.answer_text = g.answer_text]]

\* The frames after coroutine c is resumed: its own frame alone changes.
Deliver(c, response) ==
  [calls EXCEPT ![c] = Logged(Resume(calls[c], response), response)]

OutputOf(text) == [kind |-> "output", output |-> text]
MetricsOf(score, reason) ==
  [kind |-> "metrics",
   metrics |-> [llm_judge_score |-> score, llm_judge_reason |-> reason]]
RaiseOf(e) == [kind |-> "raise", exc |-> e]

Concurrent == Cardinality(callers) > 1
AgentOutputs == IF Concurrent THEN ConcOutputs ELSE Outputs
JudgeReasons == IF Concurrent THEN ConcReasons ELSE Reasons
ThresholdArgs == IF Concurrent THEN ConcThresholds ELSE Thresholds

\* ----------------------------------------------------------------- actions
\* Answer with the attempt counter kept on the runner (self.attempt) and not
\* reset: a call starts where the last call that ended left it.
Answer_KeepsAttempt(c) ==
  /\ status = "ready"
  /\ calls[c].pc = "idle"
  /\ overlap \/ \A d \in CallIds : calls[d].pc \in {"idle", "returned", "raised"}
  /\ \E question \in Questions, limit \in Limits, history \in Histories,
        reflection_threshold \in ThresholdArgs,
        max_reflections \in MaxReflectionsArgs :
       LET left == {calls[d].attempt : d \in CallIds}
           most == CHOOSE a \in left : \A b \in left : b <= a
       IN calls' = [calls EXCEPT ![c] =
                      [Start(question, limit, history, reflection_threshold,
                             max_reflections) EXCEPT !.attempt = most]]
  /\ UNCHANGED <<status, self_agent, self_deps, ctor_args, factory_calls, callers, overlap, fmt>>

Answer(c) ==
  /\ status = "ready"
  /\ calls[c].pc = "idle"
  /\ overlap \/ \A d \in CallIds : calls[d].pc \in {"idle", "returned", "raised"}
  /\ \E question \in Questions, limit \in Limits, history \in Histories,
        reflection_threshold \in ThresholdArgs,
        max_reflections \in MaxReflectionsArgs :
       calls' = [calls EXCEPT ![c] =
                   Start(question, limit, history, reflection_threshold, max_reflections)]
  /\ UNCHANGED <<status, self_agent, self_deps, ctor_args, factory_calls, callers, overlap, fmt>>

RunReturns(c) ==
  /\ calls[c].pc = "agent_run"
  /\ \E text \in AgentOutputs : calls' = Deliver(c, OutputOf(text))
  /\ UNCHANGED <<status, self_agent, self_deps, ctor_args, factory_calls, callers, overlap, fmt>>

RerunReturns(c) ==
  /\ calls[c].pc = "agent_rerun"
  /\ \E text \in AgentOutputs : calls' = Deliver(c, OutputOf(text))
  /\ UNCHANGED <<status, self_agent, self_deps, ctor_args, factory_calls, callers, overlap, fmt>>

AgentRaises(c) ==
  /\ calls[c].pc \in {"agent_run", "agent_rerun"}
  /\ \E e \in AgentErrors : calls' = Deliver(c, RaiseOf(e))
  /\ UNCHANGED <<status, self_agent, self_deps, ctor_args, factory_calls, callers, overlap, fmt>>

MetricsReturn(c) ==
  /\ calls[c].pc = "compute_metrics"
  /\ \E score \in Scores, reason \in JudgeReasons :
       calls' = Deliver(c, MetricsOf(score, reason))
  /\ UNCHANGED <<status, self_agent, self_deps, ctor_args, factory_calls, callers, overlap, fmt>>

MetricsRaises(c) ==
  /\ calls[c].pc = "compute_metrics"
  /\ \E e \in MetricsErrors : calls' = Deliver(c, RaiseOf(e))
  /\ UNCHANGED <<status, self_agent, self_deps, ctor_args, factory_calls, callers, overlap, fmt>>

\* _format_history is not called on its own.
FmtIdle == [pc |-> "idle", arg |-> NoHistory, history |-> NoHistory, lines |-> <<>>]

InitRunner ==
  /\ status = "absent"
  /\ self_agent = None
  /\ self_deps = None
  /\ ctor_args = [agent |-> None, deps |-> None]
  /\ factory_calls = 0
  /\ calls = [c \in CallIds |-> IdleFrame]

\* One call of answer().
Init == InitRunner /\ callers = {1} /\ overlap = FALSE /\ fmt = FmtIdle

\* Two callers whose coroutines interleave at their awaits.
InitConc == InitRunner /\ callers = CallIds /\ overlap = TRUE /\ fmt = FmtIdle

\* Two calls of answer(), the second after the first is over.
InitSeq == InitRunner /\ callers = CallIds /\ overlap = FALSE /\ fmt = FmtIdle

Next ==
  \/ \E agent \in AgentArgs, deps \in DepsArgs : New(agent, deps)
  \/ \E c \in callers : Answer(c)
  \/ \E c \in callers : RunReturns(c)
  \/ \E c \in callers : RerunReturns(c)
  \/ \E c \in callers : AgentRaises(c)
  \/ \E c \in callers : MetricsReturn(c)
  \/ \E c \in callers : MetricsRaises(c)

Spec == Init /\ [][Next]_vars

SpecConc == InitConc /\ [][Next]_vars

SpecSeq == InitSeq /\ [][Next]_vars

\* _format_history on its own: called once with any history of at most
\* MaxTurns turns, or with None. `arg` is the history as it was given and
\* `history` the caller's sequence, which the function could change.
Turns == {"q0", "q1"} \X {"a0", "a1"}
FormatArgs ==
  {NoHistory} \cup
  {[given |-> TRUE, turns |-> t] : t \in UNION {[1..n -> Turns] : n \in 0..MaxTurns}}

FormatHistory ==
  /\ fmt.pc = "call"
  /\ fmt' = [fmt EXCEPT !.pc = "done", !.lines = format_history(fmt.history)]
  /\ UNCHANGED <<status, self_agent, self_deps, ctor_args, factory_calls, callers, overlap, calls>>

NextFormat == FormatHistory

InitFormat ==
  /\ InitRunner
  /\ callers = {}
  /\ overlap = FALSE
  /\ \E h \in FormatArgs :
       fmt = [pc |-> "call", arg |-> h, history |-> h, lines |-> <<>>]

SpecFormat == InitFormat /\ [][NextFormat]_vars

\* One call of answer() whose collaborators answer every call: no call of
\* the agent or of compute_metrics raises, and none stays pending for ever.
NextLive ==
  \/ \E agent \in AgentArgs, deps \in DepsArgs : New(agent, deps)
  \/ \E c \in callers : Answer(c)
  \/ \E c \in callers : RunReturns(c)
  \/ \E c \in callers : RerunReturns(c)
  \/ \E c \in callers : MetricsReturn(c)

SpecLive ==
  /\ Init
  /\ [][NextLive]_vars
  /\ \A c \in CallIds :
       /\ WF_vars(RunReturns(c))
       /\ WF_vars(RerunReturns(c))
       /\ WF_vars(MetricsReturn(c))

TypeOK ==
  /\ status \in {"absent", "ready", "config_error"}
  /\ \A c \in CallIds :
       calls[c].pc \in {"idle", "agent_run", "compute_metrics", "agent_rerun",
                        "returned", "raised"}


\* ------------------------------------------------------- reading a trace
OutputsIn(trace) == SelectSeq(trace, LAMBDA r : r.kind = "output")
MetricsIn(trace) == SelectSeq(trace, LAMBDA r : r.kind = "metrics")
RaisesIn(trace) == SelectSeq(trace, LAMBDA r : r.kind = "raise")
Last(seq) == seq[Len(seq)]

\* The acceptance condition as the specification words it: the score is at
\* least the threshold and the reason, in any letter case, lacks "ambiguous".
Passes(metrics, reflection_threshold) ==
  /\ metrics.llm_judge_score >= reflection_threshold
  /\ ~Contains(Lower(metrics.llm_judge_reason), AmbiguousWord)

AllFail(f) ==
  \A i \in 1..Len(f.trace) :
    f.trace[i].kind = "metrics" => ~Passes(f.trace[i].metrics, f.reflection_threshold)

\* The prompt of the generation call that produced the current answer.
PromptOfLastGeneration(f) ==
  LET outs == OutputsIn(f.trace) IN
  IF Len(outs) = 1 THEN f.prompt
  ELSE reflection_prompt(outs[Len(outs) - 1].output)

Over(f) == f.pc \in {"returned", "raised"}

\* ------------------------------------------------------------------ claims

\* C1: for max_reflections >= 0, in every state of a call of answer() that
\* has started, the generation agent has been invoked at least once and at
\* most max_reflections + 1 times.
C1_GenerationCallsBounded ==
  \A c \in CallIds :
    (calls[c].pc # "idle" /\ calls[c].max_reflections >= 0) =>
      /\ 1 <= calls[c].agent_calls
      /\ calls[c].agent_calls <= calls[c].max_reflections + 1

\* A call that used its whole budget: max_reflections + 1 generations, with
\* at least one corrective retry.
C1_Witness ==
  \E c \in CallIds :
    /\ calls[c].pc = "returned"
    /\ calls[c].max_reflections >= 1
    /\ calls[c].agent_calls = calls[c].max_reflections + 1

\* C2: if the evaluation of the first answer has score >= reflection_threshold
\* and a reason without "ambiguous", the call has returned the first answer
\* after exactly one generation call and one evaluation call.
C2_FirstAnswerAccepted ==
  \A c \in CallIds :
    LET f == calls[c] IN
    (/\ Len(f.trace) >= 2
     /\ f.trace[1].kind = "output"
     /\ f.trace[2].kind = "metrics"
     /\ Passes(f.trace[2].metrics, f.reflection_threshold)) =>
      /\ f.pc = "returned"
      /\ f.agent_calls = 1
      /\ f.metrics_calls = 1
      /\ Len(f.trace) = 2
      /\ f.result = f.trace[1].output

\* The first answer passed although retries were allowed.
C2_Witness ==
  \E c \in CallIds :
    LET f == calls[c] IN
    /\ f.pc = "returned"
    /\ f.max_reflections >= 1
    /\ Len(f.trace) = 2
    /\ f.trace[2].kind = "metrics"
    /\ Passes(f.trace[2].metrics, f.reflection_threshold)
    /\ f.result = "A1"

\* C3: a call in which evaluations were made and every one failed the
\* acceptance condition, and no collaborator raised, ends by returning the
\* output of its last generation call after exactly max_reflections + 1
\* generation calls; and right after an evaluation fails with attempt =
\* max_reflections the call has returned without a further generation call
\* or corrective prompt (with max_reflections = 0: one generation, one
\* evaluation, and the prompt sent is still the initial prompt).
C3_ExhaustedReturnsLast ==
  \A c \in CallIds :
    LET f == calls[c] IN
    /\ (/\ Over(f)
        /\ MetricsIn(f.trace) # <<>>
        /\ RaisesIn(f.trace) = <<>>
        /\ AllFail(f)) =>
         /\ f.pc = "returned"
         /\ f.exc = None
         /\ f.agent_calls = f.max_reflections + 1
         /\ Len(OutputsIn(f.trace)) = f.max_reflections + 1
         /\ f.result = Last(OutputsIn(f.trace)).output
    /\ (/\ f.trace # <<>>
        /\ Last(f.trace).kind = "metrics"
        /\ ~Passes(Last(f.trace).metrics, f.reflection_threshold)
        /\ f.attempt = f.max_reflections) =>
         /\ f.pc = "returned"
         /\ f.agent_calls = Len(OutputsIn(f.trace))
         /\ f.sent = PromptOfLastGeneration(f)
         /\ (f.max_reflections = 0 =>
               /\ f.agent_calls = 1
               /\ f.metrics_calls = 1
               /\ f.sent = f.prompt)

\* Every evaluation failed and the budget of two retries was used up; the
\* answer returned is the last of three and differs from the two before it.
C3_Witness ==
  \E c \in CallIds :
    LET f == calls[c] IN
    /\ f.pc = "returned"
    /\ f.max_reflections = 2
    /\ Len(MetricsIn(f.trace)) = 3
    /\ AllFail(f)
    /\ f.trace[1].output = ""
    /\ f.trace[3].output = ""
    /\ f.result = "A1"

\* C4: every call of answer() that has returned has made at least one
\* generation call and at least one evaluation call, whatever
\* reflection_threshold and max_reflections are.
C4_AtLeastOneEvaluation ==
  \A c \in CallIds :
    calls[c].pc = "returned" =>
      /\ calls[c].agent_calls >= 1
      /\ calls[c].metrics_calls >= 1

\* C5: right after an evaluation the answer is accepted exactly when
\* score >= reflection_threshold and the reason lacks "ambiguous": then the
\* call has returned the current answer; otherwise, with attempts left, the
\* call is in a corrective generation call.
C5_AcceptanceDecision ==
  \A c \in CallIds :
    LET f == calls[c] IN
    (f.trace # <<>> /\ Last(f.trace).kind = "metrics") =>
      LET m == Last(f.trace).metrics IN
      /\ Passes(m, f.reflection_threshold) =>
           /\ f.pc = "returned"
           /\ f.result = f.answer_text
           /\ f.agent_calls = Len(OutputsIn(f.trace))
      /\ (~Passes(m, f.reflection_threshold) /\ f.attempt < f.max_reflections) =>
           /\ f.pc = "agent_rerun"
           /\ f.agent_calls = Len(OutputsIn(f.trace)) + 1
      /\ (m.llm_judge_score < f.reflection_threshold /\ f.attempt < f.max_reflections) =>
           f.pc = "agent_rerun"
      /\ (Contains(Lower(m.llm_judge_reason), AmbiguousWord)
            /\ f.attempt < f.max_reflections) =>
           f.pc = "agent_rerun"

\* A score equal to the threshold with a reason that is not ambiguous was
\* accepted while attempts were left.
C5_Witness ==
  \E c \in CallIds :
    LET f == calls[c] IN
    /\ f.trace # <<>>
    /\ Last(f.trace).kind = "metrics"
    /\ Last(f.trace).metrics.llm_judge_score = f.reflection_threshold
    /\ Last(f.trace).metrics.llm_judge_reason = ReasonComplete
    /\ f.attempt < f.max_reflections
    /\ f.pc = "returned"


\* ---------------------------------------------------- a call run alone
\* The call of answer() that frame f belongs to, at its first await.
FirstAwait(f) ==
  [IdleFrame EXCEPT !.pc = "agent_run",
                    !.question = f.question,
                    !.limit = f.limit,
                    !.conversation_history = f.conversation_history,
                    !.prompt = f.prompt,
                    !.reflection_threshold = f.reflection_threshold,
                    !.max_reflections = f.max_reflections,
                    !.agent_calls = 1,
                    !.sent = f.prompt]

\* Whether the response answers the call that f awaits.
Fits(f, response) ==
  \/ f.pc \in {"agent_run", "agent_rerun"} /\ response.kind \in {"output", "raise"}
  \/ f.pc = "compute_metrics" /\ response.kind \in {"metrics", "raise"}

\* The frame of a call that runs with no other call in progress and gets the
\* responses of `trace`, in order. A response the call does not wait for
\* (it is over, or awaits the other collaborator) leaves it "astray".
RECURSIVE RunAlone(_, _)
RunAlone(f, trace) ==
  IF trace = <<>> THEN f
  ELSE IF ~Fits(f, Head(trace)) THEN [f EXCEPT !.pc = "astray"]
  ELSE RunAlone(Logged(Resume(f, Head(trace)), Head(trace)), Tail(trace))

\* The trace with the reasons' letter case changed by F.
Recased(F(_), trace) ==
  [i \in 1..Len(trace) |->
     IF trace[i].kind = "metrics"
       THEN MetricsOf(trace[i].metrics.llm_judge_score,
                      F(trace[i].metrics.llm_judge_reason))
       ELSE trace[i]]

\* What a call has decided and done: everything but the responses it got,
\* which the records it printed repeat.
Course(f) ==
  [f EXCEPT !.trace = <<>>,
            !.stdout = [i \in 1..Len(f.stdout) |-> f.stdout[i].text]]

\* C6: a run whose evaluation reasons differ from this run's only in letter
\* case (all lower case, all upper case, or case swapped), with the same
\* scores, agent outputs and arguments, is in the same place with the same
\* attempt counter, number of generation and evaluation calls, current
\* answer and returned answer.
C6_CaseInsensitive ==
  \A c \in CallIds :
    LET f == calls[c] IN
    f.pc # "idle" =>
      /\ Course(RunAlone(FirstAwait(f), Recased(Lower, f.trace))) = Course(f)
      /\ Course(RunAlone(FirstAwait(f), Recased(Upper, f.trace))) = Course(f)
      /\ Course(RunAlone(FirstAwait(f), Recased(SwapCase, f.trace))) = Course(f)

\* "Ambiguous context" with a score that passes made the call retry.
C6_Witness ==
  \E c \in CallIds :
    LET f == calls[c] IN
    /\ f.pc = "agent_rerun"
    /\ Last(f.trace).kind = "metrics"
    /\ Last(f.trace).metrics.llm_judge_reason = ReasonAmbiguousCap
    /\ Last(f.trace).metrics.llm_judge_score >= f.reflection_threshold

\* C7: a call in which no collaborator raised never raises, and when it has
\* returned, its result is the output of its most recent generation call.
C7_ReturnsLastOutput ==
  \A c \in CallIds :
    LET f == calls[c] IN
    (f.pc # "idle" /\ RaisesIn(f.trace) = <<>>) =>
      /\ f.pc # "raised"
      /\ f.exc = None
      /\ f.pc = "returned" =>
           /\ OutputsIn(f.trace) # <<>>
           /\ f.result = Last(OutputsIn(f.trace)).output
           /\ f.result \in AgentOutputs

\* A call that ran out of attempts on its second answer, which differs
\* from the first, returned the second.
C7_Witness ==
  \E c \in CallIds :
    LET f == calls[c] IN
    /\ f.pc = "returned"
    /\ Len(OutputsIn(f.trace)) = 2
    /\ f.trace[1].output = "A1"
    /\ f.result = ""
    /\ ~Passes(Last(f.trace).metrics, f.reflection_threshold)

\* C8: once a generation call or an evaluation call has raised, the call of
\* answer() has raised that same exception, has returned nothing, and has
\* made no collaborator call after the one that failed: the failure is the
\* last response it got and every call it made has been answered.
C8_FailurePropagates ==
  \A c \in CallIds :
    LET f == calls[c] IN
    \A i \in 1..Len(f.trace) :
      f.trace[i].kind = "raise" =>
        /\ i = Len(f.trace)
        /\ f.pc = "raised"
        /\ f.exc = f.trace[i].exc
        /\ f.result = None
        /\ f.agent_calls + f.metrics_calls = Len(f.trace)

\* An evaluation failed after a corrective retry.
C8_Witness ==
  \E c \in CallIds :
    LET f == calls[c] IN
    /\ f.pc = "raised"
    /\ f.exc = "MetricsError"
    /\ f.agent_calls = 2
    /\ f.metrics_calls = 2

\* C9: AgentRunner(agent, deps) with exactly one of the two given fails
\* without a call of the factory and no answer() runs; with both given the
\* factory is not called and the pair given is stored; with neither given
\* the factory is called once and its pair is stored. A runner on which
\* answer() runs has an agent and deps.
C9_Construction ==
  /\ status # "absent" =>
       LET a == ctor_args.agent
           d == ctor_args.deps
       IN /\ ((a = None) # (d = None)) =>
               /\ status = "config_error"
               /\ factory_calls = 0
               /\ \A c \in CallIds : calls[c].pc = "idle" /\ calls[c].agent_calls = 0
          /\ (a # None /\ d # None) =>
               /\ status = "ready"
               /\ factory_calls = 0
               /\ self_agent = a
               /\ self_deps = d
          /\ (a = None /\ d = None) =>
               /\ status = "ready"
               /\ factory_calls = 1
               /\ self_agent = build_agent.agent
               /\ self_deps = build_agent.deps
  /\ \A c \in CallIds :
       calls[c].pc # "idle" =>
         status = "ready" /\ self_agent # None /\ self_deps # None

\* The constructor was given an agent and no deps.
C9_Witness ==
  /\ status = "config_error"
  /\ ctor_args.agent = "agent0"
  /\ ctor_args.deps = None

\* C10: whatever the interleaving of two calls of answer() on one runner,
\* each call is in the state it would be in had it run alone and got the
\* same responses: same place, attempt counter, current answer, numbers of
\* generation and evaluation calls, and result.
C10_CallsIndependent ==
  \A c \in callers :
    calls[c].pc # "idle" =>
      calls[c] = RunAlone(FirstAwait(calls[c]), calls[c].trace)

\* Both calls are in a corrective generation call, one in its second retry
\* and the other in its first, with different current answers.
C10_Witness ==
  /\ calls[1].pc = "agent_rerun"
  /\ calls[2].pc = "agent_rerun"
  /\ calls[1].attempt = 1
  /\ calls[2].attempt = 0
  /\ calls[1].answer_text # calls[2].answer_text


\* The arguments of the call of answer() that frame f belongs to.
ArgsOf(f) ==
  <<f.question, f.limit, f.conversation_history, f.reflection_threshold,
    f.max_reflections>>

\* Whether two calls got the same responses.
SameResponses(t, u) ==
  /\ Len(t) = Len(u)
  /\ \A i \in 1..Len(t) :
       /\ t[i].kind = u[i].kind
       /\ t[i].kind = "output" => t[i].output = u[i].output
       /\ t[i].kind = "metrics" => t[i].metrics = u[i].metrics
       /\ t[i].kind = "raise" => t[i].exc = u[i].exc

\* C11: answer() leaves self.agent and self.deps as the constructor set them
\* and the caller's conversation history as it was given (it still renders
\* to the prompt built from it). A call made after earlier calls of the same
\* runner have ended starts with attempt 0 and is where a call on a fresh
\* runner with the same arguments and responses would be; two calls with the
\* same arguments and the same responses have made the same calls and
\* returned the same answer.
C11_NoMemoryAcrossCalls ==
  /\ status = "ready" =>
       /\ self_agent = (IF ctor_args.agent = None THEN build_agent.agent
                        ELSE ctor_args.agent)
       /\ self_deps = (IF ctor_args.deps = None THEN build_agent.deps
                       ELSE ctor_args.deps)
  /\ \A c \in callers :
       LET f == calls[c] IN
       f.pc # "idle" =>
         /\ f.prompt = build_prompt(f.question, f.conversation_history, f.limit)
         /\ f.conversation_history \in Histories
         /\ f = RunAlone(FirstAwait(f), f.trace)
         /\ f.trace = <<>> => f.attempt = 0
  /\ \A c, d \in callers :
       (/\ calls[c].pc # "idle"
        /\ calls[d].pc # "idle"
        /\ ArgsOf(calls[c]) = ArgsOf(calls[d])
        /\ SameResponses(calls[c].trace, calls[d].trace)) =>
         calls[c] = calls[d]

\* The first call used both retries and has returned; the second call, made
\* after it with the same arguments, is at its first evaluation with
\* attempt 0.
C11_Witness ==
  /\ calls[1].pc = "returned"
  /\ calls[1].attempt = 2
  /\ calls[2].pc = "compute_metrics"
  /\ calls[2].attempt = 0
  /\ ArgsOf(calls[1]) = ArgsOf(calls[2])


\* How a call that has returned ended: its last evaluation passed
\* (Accepted), or failed with attempt = max_reflections (Exhausted).
EndedAccepted(f) ==
  /\ f.pc = "returned"
  /\ MetricsIn(f.trace) # <<>>
  /\ Passes(Last(MetricsIn(f.trace)).metrics, f.reflection_threshold)

EndedExhausted(f) ==
  /\ f.pc = "returned"
  /\ MetricsIn(f.trace) # <<>>
  /\ ~Passes(Last(MetricsIn(f.trace)).metrics, f.reflection_threshold)
  /\ f.attempt = f.max_reflections

\* C12: when every call of the agent and of compute_metrics returns, every
\* call of answer() that has started eventually returns, whatever the
\* evaluations are; it never enters the loop body more than
\* max_reflections + 1 times, and for max_reflections >= 0 it ends Accepted
\* or Exhausted.
C12_Terminates ==
  /\ [](\A c \in CallIds :
          LET f == calls[c] IN
          /\ f.pc # "idle" => f.metrics_calls <= f.max_reflections + 1
          /\ (f.pc = "returned" /\ f.max_reflections >= 0) =>
               EndedAccepted(f) \/ EndedExhausted(f))
  /\ \A c \in CallIds : (calls[c].pc # "idle") ~> (calls[c].pc = "returned")

\* No answer was acceptable: the call entered the loop body
\* max_reflections + 1 = 3 times and returned.
C12_Witness ==
  \E c \in CallIds :
    /\ EndedExhausted(calls[c])
    /\ AllFail(calls[c])
    /\ calls[c].max_reflections = 2
    /\ calls[c].metrics_calls = 3


\* C13: _format_history(history) is the one line "(no prior turns)" when the
\* history is None or empty; for n >= 1 turns it is exactly 2n lines, the
\* lines 2i-1 and 2i being "User: <question_i>" and "Assistant: <answer_i>"
\* of the i-th turn; and the history is as it was given.
C13_FormatHistory ==
  fmt.pc = "done" =>
    LET turns == fmt.arg.turns
        n == Len(turns)
    IN /\ fmt.history = fmt.arg
       /\ (~fmt.arg.given \/ n = 0) => fmt.lines = << <<"(no prior turns)">> >>
       /\ (fmt.arg.given /\ n > 0) =>
            /\ Len(fmt.lines) = 2 * n
            /\ \A i \in 1..n :
                 /\ fmt.lines[2 * i - 1] = <<"User: ", turns[i][1]>>
                 /\ fmt.lines[2 * i] = <<"Assistant: ", turns[i][2]>>

\* A history of two different turns was formatted to four lines.
C13_Witness ==
  /\ fmt.pc = "done"
  /\ fmt.arg.given
  /\ Len(fmt.arg.turns) = 2
  /\ fmt.arg.turns[1] = <<"q1", "a0">>
  /\ fmt.arg.turns[2] = <<"q0", "a1">>
  /\ Len(fmt.lines) = 4

\* The empty history (not None) was formatted.
C13_WitnessEmpty ==
  /\ fmt.pc = "done"
  /\ fmt.arg.given
  /\ fmt.arg.turns = <<>>

\* ------------------------------------------------------------ C14: a retry
\* The step of coroutine f to g was the return of a failed evaluation while
\* the attempt counter was below max_reflections.
FailedBelowMax(f, g) ==
  /\ f.pc = "compute_metrics"
  /\ g # f
  /\ Last(g.trace).kind = "metrics"
  /\ ~Passes(Last(g.trace).metrics, f.reflection_threshold)
  /\ f.attempt < f.max_reflections

\* The step of f to g was the return of a corrective generation call.
RetryAnswered(f, g) ==
  /\ f.pc = "agent_rerun"
  /\ g # f
  /\ Last(g.trace).kind = "output"

\* The step of f to g was the return of a passed evaluation of a retry's answer.
RetryPassed(f, g) ==
  /\ f.pc = "compute_metrics"
  /\ g # f
  /\ f.attempt >= 1
  /\ Last(g.trace).kind = "metrics"
  /\ Passes(Last(g.trace).metrics, f.reflection_threshold)

\* C14: when an evaluation fails while attempt < max_reflections, the
\* coroutine next awaits exactly one more generation call, sent the corrective
\* prompt, with attempt not yet changed; when that call returns, attempt grows
\* by exactly 1 and the new answer is under evaluation, the call not having
\* returned; when that evaluation passes, the call returns the new answer.
C14_RetryStep ==
  [][\A c \in CallIds :
       LET f == calls[c]
           g == calls'[c]
       IN /\ FailedBelowMax(f, g) =>
               /\ g.pc = "agent_rerun"
               /\ g.agent_calls = f.agent_calls + 1
               /\ g.metrics_calls = f.metrics_calls
               /\ g.sent = reflection_prompt(f.answer_text)
               /\ g.attempt = f.attempt
               /\ g.answer_text = f.answer_text
          /\ RetryAnswered(f, g) =>
               /\ g.attempt = f.attempt + 1
               /\ g.agent_calls = f.agent_calls
               /\ g.answer_text = Last(g.trace).output
               /\ g.pc = "compute_metrics"
               /\ g.metrics_calls = f.metrics_calls + 1
               /\ g.judged = <<f.question, OrEmpty(Last(g.trace).output)>>
          /\ RetryPassed(f, g) =>
               /\ g.pc = "returned"
               /\ g.result = Last(OutputsIn(f.trace)).output
               /\ g.agent_calls = Len(OutputsIn(f.trace))
               /\ g.agent_calls = f.attempt + 1
               /\ g.metrics_calls = f.metrics_calls]_vars

\* Fail then pass with max_reflections = 2: two generation calls, and answer
\* #2, which differs from answer #1, is returned.
C14_Witness ==
  \E c \in CallIds :
    LET f == calls[c] IN
    /\ f.pc = "returned"
    /\ f.max_reflections = 2
    /\ Len(f.trace) = 4
    /\ ~Passes(f.trace[2].metrics, f.reflection_threshold)
    /\ Passes(f.trace[4].metrics, f.reflection_threshold)
    /\ f.agent_calls = 2
    /\ f.attempt = 1
    /\ f.trace[1].output # f.trace[3].output
    /\ f.result = f.trace[3].output

\* ------------------------------------------- C15: what the prompts hold
\* Arguments another caller could have given for the same call.
AnyQuestions == Questions \cup {"Q2"}
AnyLimits == Limits \cup {DefaultLimit - 1}
AnyHistories == Histories

\* The call of frame f made with another question, history and limit, and
\* given the responses f got.
WithArgs(f, question, history, limit) ==
  RunAlone(Start(question, limit, history, f.reflection_threshold,
                 f.max_reflections),
           f.trace)

\* C15: the prompt of the first generation call is the initial prompt, built
\* from question, history and limit, and no later call is sent it; the
\* prompt of every later generation call is the reflection prompt of the
\* answer of the generation call before it, which its first line holds
\* verbatim; a run with another question, history or limit and the same
\* responses awaits the same call with the same reflection prompt.
C15_CorrectivePromptOnlyFromAnswer ==
  \A c \in CallIds :
    LET f == calls[c]
        outs == OutputsIn(f.trace)
    IN /\ f.agent_calls = 1 =>
            f.sent = build_prompt(f.question, f.conversation_history, f.limit)
       /\ f.agent_calls >= 2 =>
            /\ f.sent = reflection_prompt(outs[f.agent_calls - 1].output)
            /\ f.sent[1][2] = outs[f.agent_calls - 1].output
            /\ f.sent # f.prompt
       /\ f.pc \in {"agent_run", "agent_rerun"} =>
            \A question \in AnyQuestions, history \in AnyHistories,
               limit \in AnyLimits :
              LET g == WithArgs(f, question, history, limit) IN
              /\ g.pc = f.pc
              /\ g.agent_calls = f.agent_calls
              /\ f.pc = "agent_rerun" => g.sent = f.sent
              /\ (f.pc = "agent_run"
                  /\ <<question, history, limit>>
                       # <<f.question, f.conversation_history, f.limit>>) =>
                   g.sent # f.sent

\* The second corrective call is awaited: its prompt holds answer #2, not
\* answer #1, and a run with another question, history and limit sent
\* another initial prompt and sends this same prompt now.
C15_Witness ==
  \E c \in CallIds :
    LET f == calls[c]
        g == WithArgs(f, "Q2", NoHistory, DefaultLimit - 1)
    IN /\ f.pc = "agent_rerun"
       /\ f.agent_calls = 3
       /\ f.conversation_history.given
       /\ f.trace[1].output # f.trace[3].output
       /\ f.sent = reflection_prompt(f.trace[3].output)
       /\ g.prompt # f.prompt
       /\ g.sent = f.sent

\* ------------------------------------------------- C16: an empty answer
\* The responses with every empty output made the non-empty `text`.
Filled(trace, text) ==
  [i \in 1..Len(trace) |->
     IF trace[i].kind = "output" /\ trace[i].output = ""
       THEN OutputOf(text)
       ELSE trace[i]]

\* C16: an empty output never makes the call raise: with max_reflections >= 0
\* it is under evaluation, the evaluator given the question and "". A run
\* with the empty outputs made non-empty, the evaluations the same, is in
\* the same place with the same attempt counter and numbers of calls. A
\* call that returns (accepted or exhausted) after an empty last output
\* returns "". Every evaluation is given the question of the call and the
\* output of the most recent generation call.
C16_EmptyAnswer ==
  \A c \in CallIds :
    LET f == calls[c]
        outs == OutputsIn(f.trace)
        g == RunAlone(FirstAwait(f), Filled(f.trace, "A1"))
    IN /\ (f.trace # <<>> /\ Last(f.trace) = OutputOf("")) =>
            /\ f.pc # "raised"
            /\ f.max_reflections >= 0 =>
                 f.pc = "compute_metrics" /\ f.judged = <<f.question, "">>
       /\ f.pc # "idle" =>
            /\ g.pc = f.pc
            /\ g.attempt = f.attempt
            /\ g.agent_calls = f.agent_calls
            /\ g.metrics_calls = f.metrics_calls
            /\ g.stdout = f.stdout
       /\ (f.pc = "returned" /\ Last(outs).output = "") =>
            /\ f.result = ""
            /\ f.max_reflections >= 0 => EndedAccepted(f) \/ EndedExhausted(f)
       /\ f.pc = "compute_metrics" =>
            f.judged = <<f.question, Last(outs).output>>
       /\ f.metrics_calls >= 1 =>
            /\ f.judged = <<f.question, outs[f.metrics_calls].output>>
            /\ f.prompt = build_prompt(f.judged[1], f.conversation_history, f.limit)

\* The first answer was empty, was evaluated, failed and was retried; the
\* second was empty too, passed, and "" was returned.
C16_Witness ==
  \E c \in CallIds :
    LET f == calls[c] IN
    /\ EndedAccepted(f)
    /\ Len(f.trace) = 4
    /\ f.trace[1] = OutputOf("")
    /\ f.trace[3] = OutputOf("")
    /\ f.judged = <<f.question, "">>
    /\ f.result = ""

\* Every answer was empty and the attempts ran out: "" was returned.
C16_WitnessExhausted ==
  \E c \in CallIds :
    LET f == calls[c] IN
    /\ EndedExhausted(f)
    /\ f.max_reflections = 1
    /\ \A i \in 1..Len(f.trace) :
         f.trace[i].kind = "output" => f.trace[i].output = ""
    /\ f.result = ""

\* ------------------------------------------------- C17: one call at a time
\* The coroutine is suspended in a collaborator call.
Awaiting(f) == f.pc \in {"agent_run", "agent_rerun", "compute_metrics"}

\* C17: a call of answer() has at most one collaborator call in progress,
\* made only after the one before it was answered. The calls alternate,
\* generation first: the odd calls are generation calls and the even calls
\* evaluations, an exception being the last response of a call. With
\* max_reflections >= 0 a call that has returned got an evaluation last:
\* each output was evaluated once, right after it came, there are as many
\* evaluation calls as generation calls, and the result is the answer last
\* evaluated, which passed (Accepted) or failed with the attempts used up
\* (Exhausted).
C17_Alternation ==
  \A c \in CallIds :
    LET f == calls[c]
        n == f.agent_calls + f.metrics_calls
        outs == OutputsIn(f.trace)
        mets == MetricsIn(f.trace)
    IN /\ Len(f.trace) = (IF Awaiting(f) THEN n - 1 ELSE n)
       /\ f.agent_calls = (n + 1) \div 2
       /\ f.metrics_calls = n \div 2
       /\ f.pc \in {"agent_run", "agent_rerun"} => n % 2 = 1
       /\ f.pc = "compute_metrics" => n % 2 = 0
       /\ \A i \in 1..Len(f.trace) :
            /\ i % 2 = 1 => f.trace[i].kind \in {"output", "raise"}
            /\ i % 2 = 0 => f.trace[i].kind \in {"metrics", "raise"}
            /\ f.trace[i].kind = "raise" => i = Len(f.trace) /\ f.pc = "raised"
       /\ (f.pc = "returned" /\ f.max_reflections >= 0) =>
            /\ Last(f.trace).kind = "metrics"
            /\ Len(outs) = Len(mets)
            /\ f.metrics_calls = f.agent_calls
            /\ \A i \in 1..Len(outs) :
                 f.trace[2 * i - 1] = outs[i] /\ f.trace[2 * i] = mets[i]
            /\ f.judged[2] = f.result
            /\ f.result = Last(outs).output
            /\ EndedAccepted(f) \/ EndedExhausted(f)
            /\ EndedAccepted(f) =>
                 Accepted(Last(mets).metrics, f.reflection_threshold)
            /\ EndedExhausted(f) =>
                 ~Accepted(Last(mets).metrics, f.reflection_threshold)

\* A call that returned after generation, evaluation, generation,
\* evaluation, generation, evaluation: three answers, each evaluated once.
C17_Witness ==
  \E c \in CallIds :
    LET f == calls[c] IN
    /\ f.pc = "returned"
    /\ f.agent_calls = 3
    /\ f.metrics_calls = 3
    /\ Len(f.trace) = 6
    /\ f.judged[2] = f.result

\* ------------------------------------------- C18: the attempt counter
\* The coroutine is in the loop of lines 50-75, suspended at line 51 or 73.
InLoop(f) == f.pc \in {"compute_metrics", "agent_rerun"}

\* C18 as stated: in every state of the loop after the initial generation
\* call, attempt = (number of generation calls) - 1.
C18_AttemptIsCallsMinusOne ==
  \A c \in CallIds :
    InLoop(calls[c]) => calls[c].attempt = calls[c].agent_calls - 1

\* C18 amended: attempt is the number of corrective generation calls that
\* have returned, one less than the generation calls that have returned; it
\* is (number of generation calls made) - 1 at every evaluation and at the
\* return, and (number of generation calls made) - 2 while a corrective call
\* is awaited, line 75 coming after the await of line 73. It is 0 until the
\* first retry returns, a step leaves it or adds exactly 1, and for
\* max_reflections >= 0 it is within 0..max_reflections at every evaluation.
C18_AttemptCountsReturnedRetries ==
  /\ [](\A c \in CallIds :
          LET f == calls[c]
              outs == OutputsIn(f.trace)
          IN /\ f.attempt >= 0
             /\ outs # <<>> => f.attempt = Len(outs) - 1
             /\ f.pc \in {"idle", "agent_run"} => f.attempt = 0
             /\ f.pc \in {"compute_metrics", "returned"} =>
                  f.attempt = f.agent_calls - 1
             /\ f.pc = "agent_rerun" => f.attempt = f.agent_calls - 2
             /\ (f.pc = "compute_metrics" /\ f.max_reflections >= 0) =>
                  f.attempt <= f.max_reflections)
  /\ [][\A c \in CallIds :
          \/ calls'[c].attempt = calls[c].attempt
          \/ calls'[c].attempt = calls[c].attempt + 1]_vars

\* The last evaluation the budget allows: attempt = max_reflections = 2
\* after three generation calls.
C18_Witness ==
  \E c \in CallIds :
    LET f == calls[c] IN
    /\ f.pc = "compute_metrics"
    /\ f.max_reflections = 2
    /\ f.attempt = 2
    /\ f.agent_calls = 3

\* ------------------------------------------------- C19: the diagnostics
\* The lines of `stdout` with the given text, in order.
LinesOf(stdout, text) == SelectSeq(stdout, LAMBDA line : line.text = text)

\* The call of frame f with something already printed, given f's responses.
AfterNoise(f) ==
  RunAlone([FirstAwait(f) EXCEPT !.stdout = <<MaxReachedLine, SelfCorrectionLine>>],
           f.trace)

\* Everything of a frame but what it printed.
Unprinted(f) == [f EXCEPT !.stdout = <<>>]

\* C19: the "[metrics]" lines are the evaluation results, one for each, in
\* order, and as many as evaluation calls when the call has returned; there
\* is one self-correction notice for each corrective generation call,
\* printed right after the failed evaluation's record and before the call is
\* made; the max-reached notice is printed once, last, by a call that ended
\* Exhausted and by no other call, one that ended Accepted included; nothing
\* else is printed. Printing changes only the output: a run that had
\* printed other lines is in the same place with the same attempt counter,
\* answer and result.
C19_Diagnostics ==
  \A c \in CallIds :
    LET f == calls[c]
        mets == MetricsIn(f.trace)
        records == LinesOf(f.stdout, MetricsLine(NoMetrics).text)
        notices == LinesOf(f.stdout, SelfCorrectionLine.text)
        maxed == LinesOf(f.stdout, MaxReachedLine.text)
    IN /\ Len(records) = Len(mets)
       /\ \A i \in 1..Len(mets) : records[i].value = mets[i].metrics
       /\ f.pc = "returned" => Len(records) = f.metrics_calls
       /\ f.pc # "idle" => Len(notices) = f.agent_calls - 1
       /\ f.pc = "agent_rerun" =>
            /\ Last(f.stdout) = SelfCorrectionLine
            /\ f.stdout[Len(f.stdout) - 1] = MetricsLine(Last(mets).metrics)
       /\ Len(maxed) = (IF EndedExhausted(f) THEN 1 ELSE 0)
       /\ EndedExhausted(f) => Last(f.stdout) = MaxReachedLine
       /\ EndedAccepted(f) =>
            Len(maxed) = 0 /\ Last(f.stdout) = MetricsLine(Last(mets).metrics)
       /\ Len(f.stdout) = Len(records) + Len(notices) + Len(maxed)
       /\ f.pc # "idle" => Unprinted(AfterNoise(f)) = Unprinted(f)
       /\ \A line \in {MetricsLine(NoMetrics), SelfCorrectionLine, MaxReachedLine} :
            Unprinted(Stdout(f, line)) = Unprinted(f)

\* One retry allowed and both evaluations failed: record, self-correction
\* notice, record, max-reached notice.
C19_Witness ==
  \E c \in CallIds :
    LET f == calls[c] IN
    /\ EndedExhausted(f)
    /\ f.max_reflections = 1
    /\ Len(f.stdout) = 4
    /\ f.stdout[2] = SelfCorrectionLine
    /\ f.stdout[4] = MaxReachedLine
====
